---- MODULE Spec2Model ----
(***************************************************************************)
(* Model of scripts/rust/src/lib.rs: read_lines and calc_categories.       *)
(*                                                                         *)
(* A text line is modelled as the sequence of the pieces between its '/'   *)
(* separators ("" for the piece before a leading '/', between "//" or      *)
(* after a trailing '/').  std::path::Path is modelled by its component    *)
(* sequence, "/" standing for the root component, "." for a leading        *)
(* current-directory component and ".." for a parent-directory component.  *)
(***************************************************************************)
EXTENDS Integers, Sequences, FiniteSets, TLC

VARIABLES meta_data_file, lines, line, categories, pc

vars == <<meta_data_file, lines, line, categories, pc>>

(* ---------------------------- bounds ----------------------------------- *)

MaxLines == 3

(* --------------------------- Option<T> --------------------------------- *)

None == [some |-> FALSE]

Some(v) == [some |-> TRUE, val |-> v]

(* ----------------------- std::path::Path ------------------------------- *)

IsNormal(c) == c \notin {"/", ".", ".."}

HasRoot(text) == Len(text) >= 2 /\ text[1] = ""

\* Path::new(&line) followed by Path::components(): repeated separators,
\* a trailing separator and every non-leading "." are dropped.
PathNew(text) ==
    (IF HasRoot(text) THEN <<"/">> ELSE <<>>)
    \o (IF Len(text) >= 1 /\ text[1] = "." THEN <<".">> ELSE <<>>)
    \o SelectSeq(text, LAMBDA s : s # "" /\ s # ".")

\* Path::parent(): None for the empty path and for a path ending in the root.
Parent(p) ==
    IF p = <<>> THEN None
    ELSE IF p[Len(p)] = "/" THEN None
    ELSE Some(SubSeq(p, 1, Len(p) - 1))

\* file_name() taken as "whatever follows the last separator"
FileName_LastComponent(p) ==
    IF p = <<>> THEN None ELSE Some(p[Len(p)])

\* Path::file_name(): the last component when it is a normal one.
FileName(p) ==
    IF p = <<>> THEN None
    ELSE IF IsNormal(p[Len(p)]) THEN Some(p[Len(p)])
    ELSE None

\* Ids with a single parent() at line 30: the leaf's own directory taken
\* as the instance directory
Ids_ParentAsInstanceDir(text) ==
    LET p  == PathNew(text)
        p1 == Parent(p)
    IN  IF ~p1.some THEN [panic |-> TRUE, at |-> 30]
        ELSE LET instance_id_dir == p1.val
                 instance_id     == FileName(instance_id_dir)
             IN  IF ~instance_id.some THEN [panic |-> TRUE, at |-> 31]
                 ELSE LET p3 == Parent(instance_id_dir)
                      IN  IF ~p3.some THEN [panic |-> TRUE, at |-> 34]
                          ELSE LET class_id == FileName(p3.val)
                               IN  IF ~class_id.some THEN [panic |-> TRUE, at |-> 36]
                                   ELSE [panic       |-> FALSE,
                                         instance_id |-> instance_id.val,
                                         class_id    |-> class_id.val]

\* lines 29-38: the chain of unwrap()s; at = the source line that panics.
Panicked(n) == [panic |-> TRUE, at |-> n]

Ids(text) ==
    LET p  == PathNew(text)
        p1 == Parent(p)
    IN  IF ~p1.some THEN Panicked(30)
        ELSE LET p2 == Parent(p1.val)
             IN  IF ~p2.some THEN Panicked(30)
                 ELSE LET instance_id_dir == p2.val
                          instance_id     == FileName(instance_id_dir)
                      IN  IF ~instance_id.some THEN Panicked(31)
                          ELSE LET p3 == Parent(instance_id_dir)
                               IN  IF ~p3.some THEN Panicked(34)
                                   ELSE LET class_id == FileName(p3.val)
                                        IN  IF ~class_id.some THEN Panicked(36)
                                            ELSE [panic       |-> FALSE,
                                                  instance_id |-> instance_id.val,
                                                  class_id    |-> class_id.val]

(* -------------------- Rc<HashSet<String>> ------------------------------ *)

\* An Rc is modelled by the set it points to and the strong count of the
\* allocation.
RcNew(st) == [set |-> st, strong |-> 1]

RcClone(rc) == [set |-> rc.set, strong |-> rc.strong + 1]

\* the handle returned by remove() bound to a name and so kept alive
RcDropOther_KeptAlive(rc) == rc

\* the effect on a surviving handle of dropping another handle
RcDropOther(rc) == [set |-> rc.set, strong |-> rc.strong - 1]

\* Rc::get_mut: Some only for the unique owner
RcGetMut(rc) == IF rc.strong = 1 THEN Some(rc.set) ELSE None

\* the set overwritten instead of extended
HashSetInsert_Replace(st, x) == {x}

HashSetInsert(st, x) == st \cup {x}

(* ------------------ HashMap<String, Rc<...>> --------------------------- *)

HashMapNew == [k \in {} |-> RcNew({})]

ContainsKey(m, k) == k \in DOMAIN m

\* clear() in place of remove()
HashMapRemove_Clear(m, k) == [x \in {} |-> m[x]]

HashMapRemove(m, k) == [x \in (DOMAIN m) \ {k} |-> m[x]]

HashMapInsert(m, k, v) == [x \in (DOMAIN m) \cup {k} |-> IF x = k THEN v ELSE m[x]]

HashSetContains(st, x) == x \in st

\* lines 51-53: a new key holding the singleton set
UpdateNew(m, class_id, instance_id) ==
    [panic |-> FALSE,
     map   |-> HashMapInsert(m, class_id, RcNew(HashSetInsert({}, instance_id)))]

\* lines 44-47 without line 48
Reinsert_NotPutBack(m, class_id, instance_id, st_rc) ==
    [panic |-> FALSE, map |-> HashMapRemove(m, class_id)]

\* lines 44-48: take the entry out of the map (the removed handle is
\* dropped at once), extend the set through the now unique handle st_rc,
\* put it back
Reinsert(m, class_id, instance_id, st_rc) ==
    LET m1     == HashMapRemove(m, class_id)
        st_rc1 == RcDropOther(st_rc)
        got    == RcGetMut(st_rc1)
    IN  IF ~got.some THEN Panicked(46)
        ELSE [panic |-> FALSE,
              map   |-> HashMapInsert(m1, class_id,
                          [set    |-> HashSetInsert(got.val, instance_id),
                           strong |-> st_rc1.strong])]

\* a known instance sent to the new-key branch
UpdateExisting_DupResets(m, class_id, instance_id) ==
    LET st_rc == RcClone(m[class_id])
    IN  IF ~HashSetContains(st_rc.set, instance_id)
        THEN Reinsert(m, class_id, instance_id, st_rc)
        ELSE UpdateNew(m, class_id, instance_id)

\* lines 42-49: the key exists; the clone st_rc is dropped at line 49 when
\* the instance is already a member
UpdateExisting(m, class_id, instance_id) ==
    LET st_rc == RcClone(m[class_id])
    IN  IF ~HashSetContains(st_rc.set, instance_id)
        THEN Reinsert(m, class_id, instance_id, st_rc)
        ELSE [panic |-> FALSE, map |-> m]

\* lines 40-54: the update of the map by one (class_id, instance_id) pair
Update(m, class_id, instance_id) ==
    IF ContainsKey(m, class_id)
    THEN UpdateExisting(m, class_id, instance_id)
    ELSE UpdateNew(m, class_id, instance_id)

\* lines 29-54: the body of the loop for one successfully read line
Body(m, text) ==
    LET ids == Ids(text)
    IN  IF ids.panic THEN ids ELSE Update(m, ids.class_id, ids.instance_id)

(* ------------------------- the input ----------------------------------- *)

Ok(text) == [tag |-> "ok", text |-> text]

Err == [tag |-> "err"]

NoLine == [tag |-> "none"]

Texts ==
    { <<"root", "catA", "inst1", "img.png">>,
      <<"root", "catA", "inst1", "mask.png">>,
      <<"root", "catB", "inst2", "img.png">>,
      <<"data", "catA", "inst1", "img.png">>,
      <<"data", "root", "catA", "inst1", "img.png">>,
      <<"", "root", "catA", "inst1", "img.png">>,
      <<"root", "", "catA", ".", "inst1", "img.png">>,
      <<"catA", "inst1", "img.png">>,
      <<"", "catA", "inst1", "img.png">>,
      <<".", "catA", "inst1", "img.png">>,
      <<"root", "..", "inst1", "img.png">>,
      <<"inst1", "img.png">>,
      <<"img.png">>,
      <<"">> }

Items == {Ok(t) : t \in Texts} \cup {Err}

SeqsUpTo(S, n) == UNION {[1..k -> S] : k \in 0..n}

\* what the path given to calc_categories names: nothing that can be
\* opened, a regular file (each line decodable or not), or something that
\* opens but whose every read fails (a directory)
Files ==
    {[kind |-> "missing", content |-> <<>>], [kind |-> "dir", content |-> <<>>]}
    \cup {[kind |-> "regular", content |-> c] : c \in SeqsUpTo(Items, MaxLines)}

(* ------------------------- the program --------------------------------- *)

Init ==
    /\ meta_data_file \in Files
    /\ lines = 0
    /\ line = NoLine
    /\ categories = HashMapNew
    /\ pc = "call"

\* lines 11-17: File::open; Err when the file cannot be opened
ReadLinesOk(f) == f.kind # "missing"

\* line 26, Ok arm
OpenOk ==
    /\ pc = "call"
    /\ ReadLinesOk(meta_data_file)
    /\ pc' = "next"
    /\ UNCHANGED <<meta_data_file, lines, line, categories>>

\* read_lines(..).unwrap() in place of if let
OpenErr_Unwrap ==
    /\ pc = "call"
    /\ ~ReadLinesOk(meta_data_file)
    /\ pc' = "panic"
    /\ UNCHANGED <<meta_data_file, lines, line, categories>>

\* line 26, no else arm: falls through to line 59
OpenErr ==
    /\ pc = "call"
    /\ ~ReadLinesOk(meta_data_file)
    /\ pc' = "return"
    /\ UNCHANGED <<meta_data_file, lines, line, categories>>

\* io::Lines::next (line 27): None at end of file; a line that fails to
\* decode is consumed and yielded as Err; a read error consumes nothing.
LinesNext(f, n) ==
    IF f.kind = "dir" THEN [item |-> Some(Err), lines |-> n]
    ELSE IF n >= Len(f.content) THEN [item |-> None, lines |-> n]
    ELSE [item |-> Some(f.content[n + 1]), lines |-> n + 1]

ForNext ==
    /\ pc = "next"
    /\ LET r == LinesNext(meta_data_file, lines)
       IN  /\ r.item.some
           /\ line' = r.item.val
           /\ lines' = r.lines
    /\ pc' = "body"
    /\ UNCHANGED <<meta_data_file, categories>>

\* the loop ends and line 59 returns the map
ForEnd ==
    /\ pc = "next"
    /\ ~LinesNext(meta_data_file, lines).item.some
    /\ pc' = "return"
    /\ UNCHANGED <<meta_data_file, lines, line, categories>>

\* a failed line ending the loop
SkipErr_Break ==
    /\ pc = "body"
    /\ line.tag = "err"
    /\ pc' = "return"
    /\ UNCHANGED <<meta_data_file, lines, line, categories>>

\* line 28: if let Ok(line) = line, no else arm
SkipErr ==
    /\ pc = "body"
    /\ line.tag = "err"
    /\ pc' = "next"
    /\ UNCHANGED <<meta_data_file, lines, line, categories>>

ProcessLine ==
    /\ pc = "body"
    /\ line.tag = "ok"
    /\ LET r == Body(categories, line.text)
       IN  /\ ~r.panic
           /\ categories' = r.map
    /\ pc' = "next"
    /\ UNCHANGED <<meta_data_file, lines, line>>

PanicLine ==
    /\ pc = "body"
    /\ line.tag = "ok"
    /\ Body(categories, line.text).panic
    /\ pc' = "panic"
    /\ UNCHANGED <<meta_data_file, lines, line, categories>>

Next ==
    \/ OpenOk
    \/ OpenErr
    \/ ForNext
    \/ ForEnd
    \/ SkipErr
    \/ ProcessLine
    \/ PanicLine

Spec == Init /\ [][Next]_vars

\* the loop is sequential code: it keeps running while it can
FairSpec == Spec /\ WF_vars(Next)

TypeOK ==
    /\ meta_data_file \in Files
    /\ lines \in 0..Len(meta_data_file.content)
    /\ pc \in {"call", "next", "body", "return", "panic"}
    /\ \A k \in DOMAIN categories : categories[k].strong = 1 /\ categories[k].set # {}


(* ------------------ calc_categories as a function ---------------------- *)

\* lines 24-59 on the content of a regular file: the fold of Body over the
\* lines read, undecodable lines skipped, the first panic ending the run
RECURSIVE CalcCategories(_, _)
CalcCategories(m, content) ==
    IF content = <<>> THEN [panic |-> FALSE, map |-> m]
    ELSE IF Head(content).tag = "err" THEN CalcCategories(m, Tail(content))
    ELSE LET r == Body(m, Head(content).text)
         IN  IF r.panic THEN r ELSE CalcCategories(r.map, Tail(content))

(* ------------------- vocabulary of the properties ---------------------- *)

\* the map as category |-> set of instances
View(m) == [k \in DOMAIN m |-> m[k].set]

Holds(m, c, i) == c \in DOMAIN m /\ i \in m[c].set

Names == UNION {{t[j] : j \in 1..Len(t)} : t \in Texts}

content == meta_data_file.content

OkTexts == {content[j].text : j \in {k \in 1..Len(content) : content[k].tag = "ok"}}

\* the name of the component n levels above the leaf (0 = the leaf)
Above(text, n) ==
    IF Len(PathNew(text)) > n THEN PathNew(text)[Len(PathNew(text)) - n] ELSE "<none>"

\* <prefix>/cat/inst/leaf as the specification reads it
SpecForm(text) ==
    /\ Len(PathNew(text)) >= 3
    /\ \A n \in 0..2 : IsNormal(Above(text, n))

\* what the chain of unwraps needs: the two components above the leaf's
\* parent directory exist and are normal names
CodeForm(text) ==
    /\ Len(PathNew(text)) >= 4
    /\ IsNormal(Above(text, 2))
    /\ IsNormal(Above(text, 3))

Scenario ==
    << Ok(<<"root", "catA", "inst1", "img.png">>),
       Ok(<<"root", "catA", "inst1", "mask.png">>),
       Ok(<<"root", "catB", "inst2", "img.png">>) >>

Perms(n) == {f \in [1..n -> 1..n] : \A a, b \in 1..n : f[a] = f[b] => a = b}

\* the loop is about to run lines 29-54 on a decoded line
AtBody == pc = "body" /\ line.tag = "ok"

\* ... and the path decomposition of that line succeeds
AtUpdate == AtBody /\ ~Ids(line.text).panic

class_id == Ids(line.text).class_id

instance_id == Ids(line.text).instance_id

(* ------------------------------ claims --------------------------------- *)

\* C1 as stated: when every line has the form <prefix>/cat/inst/leaf, the
\* returned map holds i under c iff some line has grandparent directory c
\* and parent directory i.
C1_Original ==
    (pc = "return" /\ meta_data_file.kind = "regular"
        /\ \A j \in 1..Len(content) : content[j].tag = "ok" /\ SpecForm(content[j].text))
    => \A c \in Names, i \in Names :
          Holds(categories, c, i)
          <=> \E t \in OkTexts : Above(t, 2) = c /\ Above(t, 1) = i

\* C1 amended: the returned map holds i under c iff some decoded line has
\* the component three levels above the leaf named c and the component two
\* levels above the leaf named i; the three-line scenario yields
\* root -> {catA, catB}.
C1_Grouping ==
    pc = "return" =>
       /\ \A c \in Names, i \in Names :
             Holds(categories, c, i)
             <=> \E t \in OkTexts : Above(t, 3) = c /\ Above(t, 2) = i
       /\ content = Scenario
             => View(categories) = [k \in {"root"} |-> {"catA", "catB"}]

C1_Witness ==
    pc = "return" /\ content = Scenario /\ DOMAIN categories = {"root"}

\* C2: a file that cannot be opened yields the empty map and no abort.
C2_MissingFileEmpty ==
    meta_data_file.kind = "missing" =>
       /\ pc # "panic"
       /\ pc \in {"call", "return"}
       /\ categories = HashMapNew

C2_Witness == meta_data_file.kind = "missing" /\ pc = "return"

\* C3 as stated: aggregation aborts only on a line that lacks two named
\* ancestor directory levels; cat/inst/leaf is processed.
C3_Original ==
    pc = "panic" => ~SpecForm(line.text)

\* C3 amended: a decoded line is processed without abort exactly when it
\* has at least four components and the two components above the leaf's
\* parent directory are normal names; every other line aborts the run.
C3_AbortExactly ==
    [][AtBody => ((pc' = "panic") <=> ~CodeForm(line.text))]_vars

C3_Witness ==
    /\ pc = "panic"
    /\ Len(PathNew(line.text)) = 3
    /\ SpecForm(line.text)

\* C4: every permutation of the lines of the file gives the same outcome:
\* the same map when the run returns, an abort when the run aborts.
C4_OrderIndependent ==
    meta_data_file.kind = "regular" =>
       \A f \in Perms(Len(content)) :
          LET r == CalcCategories(HashMapNew, [j \in 1..Len(content) |-> content[f[j]]])
          IN  /\ pc = "return" => ~r.panic /\ View(r.map) = View(categories)
              /\ pc = "panic" => r.panic

C4_Witness ==
    /\ pc = "return"
    /\ Len(content) = 3
    /\ \E k \in DOMAIN categories : Cardinality(categories[k].set) = 2
    /\ Cardinality(DOMAIN categories) = 2

\* C5: a line whose (category, instance) pair is already in the map leaves
\* the map unchanged, and the returned set of a category has one member per
\* distinct instance read for it, however many lines share the pair.
C5_Idempotent ==
    /\ [][(AtUpdate /\ Holds(categories, class_id, instance_id))
             => (pc' = "next" /\ categories' = categories)]_vars
    /\ [](pc = "return" =>
             \A c \in DOMAIN categories :
                Cardinality(categories[c].set)
                = Cardinality({Above(t, 2) : t \in {u \in OkTexts : Above(u, 3) = c}}))

C5_Witness ==
    /\ pc = "next"
    /\ lines = 3
    /\ content[1].tag = "ok"
    /\ content[2].tag = "ok"
    /\ content[3] = content[1]
    /\ Ids(content[1].text).class_id = Ids(content[2].text).class_id
    /\ Cardinality(categories[Ids(content[1].text).class_id].set) = 2

\* C6: processing a line leaves the sets of all other categories as they
\* were and creates no key but the line's own; the same instance under two
\* categories is a member of both keys.
C6_Frame ==
    /\ [][(AtUpdate /\ pc' = "next") =>
             /\ DOMAIN categories' = DOMAIN categories \cup {class_id}
             /\ \A k \in DOMAIN categories :
                   k # class_id => categories'[k] = categories[k]]_vars
    /\ [](pc = "return" =>
             \A s, t \in OkTexts :
                Above(s, 2) = Above(t, 2) /\ Above(s, 3) # Above(t, 3)
                => /\ Holds(categories, Above(s, 3), Above(s, 2))
                   /\ Holds(categories, Above(t, 3), Above(s, 2)))

C6_Witness ==
    /\ pc = "return"
    /\ Holds(categories, "root", "catA")
    /\ Holds(categories, "data", "catA")
    /\ Holds(categories, "root", "catB")

\* C7: a new instance of an existing category is added to the set without
\* abort and without losing a member; a new category gets the singleton.
C7_Accumulate ==
    [][AtUpdate =>
          /\ pc' = "next"
          /\ class_id \in DOMAIN categories'
          /\ categories'[class_id].set =
                (IF class_id \in DOMAIN categories
                 THEN categories[class_id].set \cup {instance_id}
                 ELSE {instance_id})]_vars

C7_Witness ==
    /\ pc = "next"
    /\ lines = 2
    /\ "root" \in DOMAIN categories
    /\ categories["root"].set = {"catA", "catB"}

\* C8: the returned map is the map of the same file with the lines that
\* failed to decode taken out.
C8_FailedLinesDropped ==
    (pc = "return" /\ meta_data_file.kind = "regular") =>
       LET r == CalcCategories(HashMapNew, SelectSeq(content, LAMBDA it : it.tag = "ok"))
       IN  ~r.panic /\ r.map = categories

C8_Witness ==
    /\ pc = "return"
    /\ Len(content) = 3
    /\ content[1].tag = "ok"
    /\ content[2].tag = "err"
    /\ content[3].tag = "ok"
    /\ Cardinality(OkTexts) = 2
    /\ \E k \in DOMAIN categories : Cardinality(categories[k].set) = 2

\* C9: from one iteration of the loop to the next no key leaves the map and
\* no member leaves a set.
C9_Monotone ==
    [][\A k \in DOMAIN categories :
          k \in DOMAIN categories' /\ categories[k].set \subseteq categories'[k].set]_vars

C9_Witness ==
    /\ pc = "return"
    /\ lines = 3
    /\ Cardinality(DOMAIN categories) = 1
    /\ \E k \in DOMAIN categories : Cardinality(categories[k].set) = 2
    /\ Cardinality(OkTexts) = 3

\* C10: a file that can be opened and has no malformed line is read to its
\* end and the map is returned, whatever reads fail on the way.
C10_Terminates ==
    (pc = "call" /\ ReadLinesOk(meta_data_file)
        /\ \A t \in OkTexts : CodeForm(t))
    ~> (pc = "return")

====
